---- MODULE Spec2Model ----
(***************************************************************************)
(* A model of the WFQ packet scheduler of PA2_Computer_Communications.     *)
(*                                                                         *)
(* The program built by the Makefile is wfq.cpp.  src/wfq.cpp holds two    *)
(* revisions of it; the later one (lines 228-420, the one the README       *)
(* describes) is modelled by Spec.  src/unnamed/part_003 is the revision   *)
(* that keeps a system virtual time V and per-packet finish tags; it is    *)
(* modelled by TagSpec.                                                    *)
(*                                                                         *)
(* stdin is a sequence of lines already split into what sscanf returns.    *)
(* A double is modelled exactly, as an integer number of 1/Unit, Unit      *)
(* being a common multiple of every weight of the model's inputs, so that  *)
(* L / w is computed without rounding (as it is in double precision for    *)
(* the small integers of the model).                                       *)
(***************************************************************************)
EXTENDS Integers, Sequences, FiniteSets, TLC

VARIABLES
    stdin,              \* the unread lines of standard input
    next_packet,        \* std::optional<PacketInfo>: <<>> or <<p>>
    channelsIndexMap,   \* connection -> ChannelInfo (index, weight, Q)
    active_channels,    \* std::priority_queue<ActiveChannelEntry>, as a sequence
    channels,           \* first revision of wfq.cpp: std::vector<ChannelInfo>
    time,               \* main's uint64_t time (the simulated now)
    pc,                 \* main's position
    input,              \* history: the whole of standard input
    output,             \* history: the emitted lines, with the key and index used
    served,             \* history: length served per connection in this busy period
    empties,            \* history: how often the ready heap was seen empty
    steps,              \* history: the steps main has taken
    first_run,          \* history: <<>>, or <<the run before this one>>
    last_call,          \* history: <<>>, or <<the last call of a read function>>
    channelsMap,        \* new_wfq.cpp: connection -> ChannelInfo* (a node of channels)
    V,                  \* part_003: system virtual time (double)
    last_finish,        \* part_003: connection -> last finish tag
    connection_weights, \* part_003: PacketReader::connection_weights
    num_packets,        \* part_003: PacketReader::num_packets
    Q                   \* part_003: priority queue of tagged packets, as a sequence

vars == <<stdin, next_packet, channelsIndexMap, active_channels, channels, time, pc,
          input, output, served, empties, steps, first_run, last_call, channelsMap,
          V, last_finish, connection_weights, num_packets, Q>>

tagVars == <<V, last_finish, connection_weights, num_packets, Q>>
wfqVars == <<channelsIndexMap, active_channels, channels>>

----------------------------------------------------------------------------
(* Bounds of the model and the inputs it is run on.                        *)

MaxPackets == 3
MaxTime == 2

Connections == {"A a B b", "C c D d"}
Weights == {1, 2, 3}
\* A short and a long packet.
Lengths == {1, 2}

\* A common multiple of the weights: the unit in which doubles are counted.
Unit == CHOOSE u \in 1..16 :
            /\ \A w \in Weights : u % w = 0
            /\ \A v \in 1..(u - 1) : \E w \in Weights : v % w # 0

\* numeric_limits<uint64_t>::max(), cut to the range of the checker's integers;
\* every time of the model is far below it.
UINT64_MAX == 2147483647

Min(a, b) == IF a < b THEN a ELSE b
Max(a, b) == IF a > b THEN a ELSE b

\* static_cast<double>(length) / weight, in units of 1/Unit.
Div(length, weight) == (length * Unit) \div weight

\* An input line, as sscanf sees it: the number of conversions and the fields.
Line(t, c, l, n, w) ==
    [num_read |-> n, time |-> t, connection |-> c, length |-> l, weight |-> w]

LinesOver(times, conns, lens, weights) ==
    {Line(t, c, l, 6, 0) : t \in times, c \in conns, l \in lens}
    \cup {Line(t, c, l, 7, w) : t \in times, c \in conns, l \in lens, w \in weights}

\* The inputs of at most n lines over a set of lines, arrival times non-decreasing.
RECURSIVE InputsUpTo(_, _)
InputsUpTo(n, lines) ==
    IF n = 0 THEN {<<>>}
    ELSE LET shorter == InputsUpTo(n - 1, lines)
         IN shorter \cup
            {Append(sl[1], sl[2]) :
                sl \in {x \in shorter \X lines :
                          /\ Len(x[1]) = n - 1
                          /\ (x[1] = <<>> \/ x[1][Len(x[1])].time <= x[2].time)}}

Inputs == InputsUpTo(MaxPackets, LinesOver(0..MaxTime, Connections, Lengths, {2}))

\* Scenario S3 of the specification: two flows with weights 2 and 1, all at T = 0.
S3Input ==
    << Line(0, "A a B b", 100, 7, 2), Line(0, "C c D d", 100, 7, 1),
       Line(0, "A a B b", 100, 6, 0), Line(0, "C c D d", 100, 6, 0),
       Line(0, "A a B b", 100, 6, 0), Line(0, "C c D d", 100, 6, 0) >>

\* Bursts like S3: every arrival at T = 0 with the length of S3, explicit
\* weights on the first two lines at most.
BurstPackets == 6
BurstLengths == {S3Input[i].length : i \in 1..Len(S3Input)}
BurstInputs ==
    {h \o t : h \in InputsUpTo(2, LinesOver({0}, Connections, BurstLengths, Weights)),
              t \in InputsUpTo(BurstPackets - 2,
                               LinesOver({0}, Connections, BurstLengths, {}))}

\* A token of a line of text: a numeral (every conversion takes it whole) or
\* a word that no numeric conversion takes anything of.
NumText(n) == <<"0", "1", "2", "3">>[n + 1]
Num(n) == [text |-> NumText(n), num |-> TRUE, val |-> n]
Word(s) == [text |-> s, num |-> FALSE, val |-> 0]

\* sscanf(input_line, "%llu %31s %31s %31s %31s %llu %lf", ...) on a line
\* given as its whitespace-separated tokens: the conversions are made from
\* the left up to the first that fails, the tokens after the seventh are not
\* looked at.  The result is the line as PacketInfo::parse then sees it; a
\* field not converted keeps its initial value (time and length 0), the
\* character arrays not written are uninitialised (here "?").
sscanf(tokens) ==
    LET n == Len(tokens)
        t_ok == n >= 1 /\ tokens[1].num
        strs == IF t_ok THEN Min(4, n - 1) ELSE 0
        l_ok == strs = 4 /\ n >= 6 /\ tokens[6].num
        w_ok == l_ok /\ n >= 7 /\ tokens[7].num
    IN [num_read |-> IF n = 0 THEN -1
                     ELSE IF ~t_ok THEN 0
                     ELSE IF ~l_ok THEN 1 + strs
                     ELSE IF w_ok THEN 7 ELSE 6,
        time |-> IF t_ok THEN tokens[1].val ELSE 0,
        connection |-> IF strs = 4
                       THEN tokens[2].text \o " " \o tokens[3].text \o " "
                            \o tokens[4].text \o " " \o tokens[5].text
                       ELSE "?",
        length |-> IF l_ok THEN tokens[6].val ELSE 0,
        weight |-> IF w_ok THEN tokens[7].val ELSE 0,
        tokens |-> tokens]

\* Lines of text: of the expected shape with 6 and 7 tokens, and with a word
\* for W, a token too many, a word for L, no L, a word for T, two tokens, none.
TextPackets == 3
TextTimes == {0, 1}
TextConnections == {<<Word("A"), Word("a"), Word("B"), Word("b")>>,
                    <<Word("C"), Word("c"), Word("D"), Word("d")>>}
TextLines ==
    {<<Num(t)>> \o c \o <<Num(l)>> : t \in TextTimes, c \in TextConnections, l \in Lengths}
    \cup UNION {{<<Num(t)>> \o c \o <<Num(1), Num(2)>>,
                 <<Num(t)>> \o c \o <<Num(1), Word("x")>>,
                 <<Num(t)>> \o c \o <<Num(1), Num(2), Word("x")>>,
                 <<Num(t)>> \o c \o <<Word("x")>>,
                 <<Num(t)>> \o c} : t \in TextTimes, c \in TextConnections}
    \cup {<<Word("x"), Word("A"), Word("a"), Word("B"), Word("b"), Num(1)>>,
          <<Num(1), Word("A")>>,
          <<>>}

TextInputs == InputsUpTo(TextPackets, {sscanf(l) : l \in TextLines})

\* Scenario S4 of the specification: an idle gap between two arrivals.
S4Input == << Line(0, "A a B b", 10, 6, 0), Line(100, "C c D d", 10, 6, 0) >>

\* Inputs like S4: arrivals at the two times of S4, of the length of S4 or
\* so long that the transmission fills the gap.
GapPackets == 3
GapTimes == {S4Input[i].time : i \in 1..Len(S4Input)}
GapLengths == {S4Input[i].length : i \in 1..Len(S4Input)}
              \cup {S4Input[Len(S4Input)].time - S4Input[1].time}
GapInputs == InputsUpTo(GapPackets, LinesOver(GapTimes, Connections, GapLengths, {2}))

----------------------------------------------------------------------------
(* wfq.cpp (lines 228-420): data and helpers.                              *)

\* PacketInfo::parse: 6 conversions give no weight, 7 give one.
WellFormed(line) == line.num_read \in {6, 7}

\* How parse ends on a line it does not accept: std::abort() (line 286);
\* before it, line 275 formats the four character arrays, which sscanf has
\* not all written when it made fewer than 5 conversions.
ParseFailure(line) == IF line.num_read < 5 THEN "uninitialized" ELSE "aborted"

\* What the process does on a status: reading the uninitialised arrays is
\* undefined; the build either goes on to abort or fails in the read.
Exit(status) == IF status = "uninitialized" THEN {"aborted", "undefined"} ELSE {status}

PacketInfo_parse(line) ==
    [time |-> line.time, connection |-> line.connection, length |-> line.length,
     weight |-> IF line.num_read = 7 THEN <<line.weight>> ELSE <<>>]

\* ChannelInfo's default member initialisers, with the index given.
ChannelInfo(index) == [index |-> index, weight |-> 1, Q |-> <<>>]

EmptyMap == [c \in {} |-> 0]

\* Mutant: the indices are counted from 1.
get_or_create_channel_from_1(map, connection) ==
    IF connection \in DOMAIN map THEN map
    ELSE [c \in DOMAIN map \cup {connection} |->
            IF c = connection THEN ChannelInfo(Cardinality(DOMAIN map) + 1) ELSE map[c]]

\* Mutant: a channel found with no packet queued is constructed anew, with
\* the default weight, keeping its index.
get_or_recreate_channel(map, connection) ==
    IF connection \in DOMAIN map /\ map[connection].Q # <<>> THEN map
    ELSE [c \in DOMAIN map \cup {connection} |->
            IF c = connection
            THEN ChannelInfo(IF connection \in DOMAIN map THEN map[connection].index
                             ELSE Cardinality(DOMAIN map))
            ELSE map[c]]

get_or_create_channel(map, connection) ==
    IF connection \in DOMAIN map THEN map
    ELSE [c \in DOMAIN map \cup {connection} |->
            IF c = connection THEN ChannelInfo(Cardinality(DOMAIN map)) ELSE map[c]]

\* Mutant: the snapshots are compared the other way round.
EntryLessInverted(map, a, b) ==
    IF a.priority_snapshot # b.priority_snapshot
    THEN a.priority_snapshot < b.priority_snapshot
    ELSE map[a.channel].index > map[b.channel].index

\* Mutant: among equal snapshots the channel seen last is served first.
EntryLessLastSeen(map, a, b) ==
    IF a.priority_snapshot # b.priority_snapshot
    THEN a.priority_snapshot > b.priority_snapshot
    ELSE map[a.channel].index < map[b.channel].index

\* ActiveChannelEntry::operator<: a < b when a is to be served after b.
EntryLess(map, a, b) ==
    IF a.priority_snapshot # b.priority_snapshot
    THEN a.priority_snapshot > b.priority_snapshot
    ELSE map[a.channel].index > map[b.channel].index

\* The position of priority_queue::top(): an entry below no other entry.
TopPos(map, heap) ==
    CHOOSE i \in 1..Len(heap) : \A j \in 1..Len(heap) : ~EntryLess(map, heap[i], heap[j])

RemoveAt(s, i) == SubSeq(s, 1, i - 1) \o SubSeq(s, i + 1, Len(s))

\* Mutant: the packet taken is the newest of the queue, not the oldest.
Q_back(q) == q[Len(q)]

\* Mutant: pop() takes the newest packet off the queue.
Q_pop_back(q) == SubSeq(q, 1, Len(q) - 1)

\* std::queue front() and pop().
Q_front(q) == Head(q)
Q_pop(q) == Tail(q)

\* The key mark_channel_active gives the channel's head packet.
Priority(channel) == Div(Q_front(channel.Q).length, channel.weight)

\* Mutant: the channel is pushed twice.
mark_channel_active_twice(st, connection) ==
    LET channel == st.channelsIndexMap[connection]
        entry == [channel |-> connection, priority_snapshot |-> Priority(channel)]
    IN IF channel.Q = <<>>
       THEN [st EXCEPT !.status = "assert_failed"]
       ELSE [st EXCEPT !.active_channels = Append(Append(@, entry), entry)]

\* mark_channel_active, on the reader's state st.
mark_channel_active(st, connection) ==
    LET channel == st.channelsIndexMap[connection]
    IN IF channel.Q = <<>>
       THEN [st EXCEPT !.status = "assert_failed"]
       ELSE [st EXCEPT !.active_channels =
                Append(@, [channel |-> connection,
                           priority_snapshot |-> Priority(channel)])]

\* Mutant: the time limit is never applied.
NoTimeout(p, max_time) == FALSE

\* Mutant: a packet whose time equals the limit is held back too.
AtOrPastTimeout(p, max_time) == p.time >= max_time

\* Whether read_batch_with_timeout stops at packet p (line 356).
PastTimeout(p, max_time) == p.time > max_time

\* Mutant: every arrival marks its channel active.
AnyInQueue(channel) == Len(channel.Q) >= 1

\* Whether the packet just pushed is the only one of its channel (line 365).
FirstInQueue(channel) == Len(channel.Q) = 1

\* Mutant: the channel is marked active before the explicit weight is set.
EnqueueTagFirst(st, p) ==
    LET map1 == get_or_create_channel(st.channelsIndexMap, p.connection)
        ch1 == [map1[p.connection] EXCEPT !.Q = Append(@, p)]
        st1 == [st EXCEPT !.channelsIndexMap = [map1 EXCEPT ![p.connection] = ch1],
                          !.next_packet = <<>>]
        st2 == IF FirstInQueue(ch1) THEN mark_channel_active(st1, p.connection) ELSE st1
    IN IF p.weight # <<>>
       THEN [st2 EXCEPT !.channelsIndexMap[p.connection].weight = p.weight[1]]
       ELSE st2

\* Lines 359-368: the look-ahead packet p goes to its channel.
Enqueue(st, p) ==
    LET map1 == get_or_create_channel(st.channelsIndexMap, p.connection)
        ch1 == [map1[p.connection] EXCEPT !.Q = Append(@, p)]
        ch2 == IF p.weight # <<>> THEN [ch1 EXCEPT !.weight = p.weight[1]] ELSE ch1
        st1 == [st EXCEPT !.channelsIndexMap = [map1 EXCEPT ![p.connection] = ch2],
                          !.next_packet = <<>>]
    IN IF FirstInQueue(ch2) THEN mark_channel_active(st1, p.connection) ELSE st1

\* Mutant: a line is read whether the look-ahead slot is occupied or not.
AlwaysReadsLine(st) == TRUE

\* Line 351: a line is read only when the look-ahead slot is empty.
NeedsLine(st) == st.next_packet = <<>>

\* Mutant: the time limit is not lowered to the time of the packet taken.
KeepLimit(max_time, t) == max_time

\* Line 357: the limit for the rest of the batch.
BatchLimit(max_time, t) == Min(max_time, t)

\* read_batch_with_timeout: the loop of lines 350-369, from num_read on.
RECURSIVE read_batch_with_timeout(_, _, _)
read_batch_with_timeout(st, max_time, num_read) ==
    IF st.status # "ok" THEN [st |-> st, num_read |-> num_read]
    ELSE IF NeedsLine(st) /\ st.stdin = <<>>
    THEN [st |-> st, num_read |-> num_read]
    ELSE IF NeedsLine(st) /\ ~WellFormed(Head(st.stdin))
    THEN [st |-> [st EXCEPT !.status = ParseFailure(Head(st.stdin)), !.stdin = Tail(@)],
          num_read |-> num_read]
    ELSE LET s1 == IF NeedsLine(st)
                   THEN [st EXCEPT !.next_packet = <<PacketInfo_parse(Head(st.stdin))>>,
                                   !.stdin = Tail(@)]
                   ELSE st
             p == s1.next_packet[1]
         IN IF PastTimeout(p, max_time)
            THEN [st |-> s1, num_read |-> num_read]
            ELSE read_batch_with_timeout(Enqueue(s1, p), BatchLimit(max_time, p.time), num_read + 1)

\* Mutant: the batch is read with the limit 0 instead of no limit.
read_batch_limit_0(st) == read_batch_with_timeout(st, 0, 0)

read_batch(st) == read_batch_with_timeout(st, UINT64_MAX, 0)

\* Mutant: one batch is read where read_with_timeout reads them all.
read_once_with_timeout(st, max_time) == read_batch_with_timeout(st, max_time, 0).st

\* read_with_timeout: batches until one reads nothing.
RECURSIVE read_with_timeout(_, _)
read_with_timeout(st, max_time) ==
    LET r == read_batch_with_timeout(st, max_time, 0)
    IN IF r.num_read = 0 \/ r.st.status # "ok" THEN r.st
       ELSE read_with_timeout(r.st, max_time)

\* The reader's state, gathered from and written back to the variables.
ReaderState ==
    [stdin |-> stdin, next_packet |-> next_packet,
     channelsIndexMap |-> channelsIndexMap, active_channels |-> active_channels,
     status |-> "ok"]

SetReaderState(st) ==
    /\ stdin' = st.stdin
    /\ next_packet' = st.next_packet
    /\ channelsIndexMap' = st.channelsIndexMap
    /\ active_channels' = st.active_channels

\* The lines consumed so far (read and put on a channel).
NumConsumed == Len(input) - Len(stdin) - Len(next_packet)

----------------------------------------------------------------------------
(* wfq.cpp (lines 396-420): main.                                          *)

InitWith(inputs) ==
    /\ input \in inputs
    /\ stdin = input
    /\ next_packet = <<>>
    /\ channelsIndexMap = EmptyMap
    /\ active_channels = <<>>
    /\ channels = <<>>
    /\ time = 0
    /\ pc = "loop"
    /\ output = <<>>
    /\ served = [c \in Connections |-> 0]
    /\ empties = 0
    /\ steps = 0
    /\ first_run = <<>>
    /\ last_call = <<>>
    /\ channelsMap = EmptyMap
    /\ V = 0
    /\ last_finish = [c \in Connections |-> 0]
    /\ connection_weights = EmptyMap
    /\ num_packets = 0
    /\ Q = <<>>

Init == InitWith(Inputs)

\* Mutant: the clock is set past the head packet, to T + length.
FastForwardPastHead(map, heap) ==
    Q_front(map[heap[TopPos(map, heap)].channel].Q).time
    + Q_front(map[heap[TopPos(map, heap)].channel].Q).length

\* Mutant: after an idle period the clock restarts at 0.
FastForwardToZero(map, heap) == 0

\* Line 402: the arrival time of the head packet of the top channel.
FastForward(map, heap) == Q_front(map[heap[TopPos(map, heap)].channel].Q).time

\* Mutant: the clock is advanced by one tick, whatever the length.
AdvanceTick(now, length) == now + 1

\* Mutant: time = p.length instead of time += p.length.
AdvanceAssign(now, length) == length

\* Line 412: the time after transmitting a packet of this length.
Advance(now, length) == now + length

\* Where main stands when each step is taken.
AtIdle == pc = "loop" /\ active_channels = <<>>
AtServe == pc = "select" \/ (pc = "loop" /\ active_channels # <<>>)
AtAbsorb == pc = "absorb"

\* Lines 399-403: nothing is ready; read the next batch, halt or fast-forward.
Idle ==
    /\ AtIdle
    /\ LET r == read_batch(ReaderState)
       IN /\ SetReaderState(r.st)
          /\ IF r.st.status # "ok"
             THEN pc' \in Exit(r.st.status) /\ time' = time
             ELSE IF r.num_read = 0
             THEN pc' = "done" /\ time' = time
             ELSE IF r.st.active_channels = <<>>
             THEN pc' = "undefined" /\ time' = time
             ELSE /\ pc' = "select"
                  /\ time' = FastForward(r.st.channelsIndexMap, r.st.active_channels)
    /\ empties' = empties + 1
    /\ served' = [c \in Connections |-> 0]
    /\ UNCHANGED <<input, output, first_run>>
    /\ steps' = steps + 1
    /\ UNCHANGED <<tagVars, channels>>
    /\ UNCHANGED <<last_call, channelsMap>>

\* Lines 405-416: pop the top channel, emit its head packet, refill the heap.
Serve ==
    /\ AtServe
    /\ LET i == TopPos(channelsIndexMap, active_channels)
           top == active_channels[i]
           ch == channelsIndexMap[top.channel]
           p == Q_front(ch.Q)
           st1 == [ReaderState EXCEPT
                     !.active_channels = RemoveAt(active_channels, i),
                     !.channelsIndexMap = [channelsIndexMap EXCEPT
                                             ![top.channel].Q = Q_pop(ch.Q)]]
           st2 == IF Q_pop(ch.Q) # <<>> THEN mark_channel_active(st1, top.channel)
                  ELSE st1
       IN IF ch.Q = <<>>
          THEN /\ pc' = "undefined"
               /\ UNCHANGED <<stdin, next_packet, channelsIndexMap, active_channels,
                              time, output, served, empties>>
          ELSE /\ output' = Append(output,
                     [tau |-> time, packet |-> p, key |-> top.priority_snapshot,
                      index |-> ch.index, empties |-> empties])
               /\ time' = Advance(time, p.length)
               /\ SetReaderState(st2)
               /\ pc' = IF st2.status = "ok" THEN "absorb" ELSE st2.status
               /\ served' = [served EXCEPT ![top.channel] = @ + p.length]
               /\ empties' = IF st1.active_channels = <<>> THEN empties + 1 ELSE empties
    /\ UNCHANGED <<input, first_run>>
    /\ steps' = steps + 1
    /\ UNCHANGED <<tagVars, channels>>
    /\ UNCHANGED <<last_call, channelsMap>>

\* Line 418: read what arrived while the packet was transmitted.
Absorb ==
    /\ AtAbsorb
    /\ LET st == read_with_timeout(ReaderState, time)
       IN /\ SetReaderState(st)
          /\ pc' \in IF st.status = "ok" THEN {"loop"} ELSE Exit(st.status)
    /\ UNCHANGED <<time, input, output, served, empties, first_run>>
    /\ steps' = steps + 1
    /\ UNCHANGED <<tagVars, channels>>
    /\ UNCHANGED <<last_call, channelsMap>>

Next == Idle \/ Serve \/ Absorb

Spec == Init /\ [][Next]_vars

\* The same program on the bursts.
BurstInit == InitWith(BurstInputs)
BurstSpec == BurstInit /\ [][Next]_vars

\* The same program on inputs with idle gaps.
GapInit == InitWith(GapInputs)
GapSpec == GapInit /\ [][Next]_vars

\* The same program on lines of text, well-formed and not.
TextInit == InitWith(TextInputs)
TextSpec == TextInit /\ [][Next]_vars

\* The same program on inputs with packets of length 0.
ZeroPackets == 3
ZeroInputs == InputsUpTo(ZeroPackets, LinesOver({0, 1}, Connections, {0, 1}, {2}))
ZeroInit == InitWith(ZeroInputs)
ZeroSpec == ZeroInit /\ [][Next]_vars

----------------------------------------------------------------------------
(* The read functions of wfq.cpp called on their own, in any order and     *)
(* with any time limit, on an input ordered by T.                          *)

ReadPackets == 3
ReadInputs == InputsUpTo(ReadPackets, LinesOver(0..MaxTime, Connections, {1}, {}))

\* The time limits of the calls: the times of the input, and one beyond.
Limits == 0..(MaxTime + 1)

ReadInit == InitWith(ReadInputs)

\* What is kept of a call: the function, its argument and its return value
\* (<<>>: none), and the reader's state when it was called.
CallRecord(fn, args, result) ==
    [fn |-> fn, args |-> args, result |-> result,
     stdin |-> stdin, next_packet |-> next_packet, consumed |-> NumConsumed]

Call_read_batch_with_timeout ==
    /\ pc = "loop"
    /\ \E max_time \in Limits :
          LET r == read_batch_with_timeout(ReaderState, max_time, 0)
          IN /\ SetReaderState(r.st)
             /\ pc' \in IF r.st.status = "ok" THEN {"loop"} ELSE Exit(r.st.status)
             /\ last_call' = <<CallRecord("read_batch_with_timeout", <<max_time>>,
                                          <<r.num_read>>)>>
    /\ UNCHANGED <<time, input, output, served, empties, steps, first_run>>
    /\ UNCHANGED <<tagVars, channels, channelsMap>>

Call_read_batch ==
    /\ pc = "loop"
    /\ LET r == read_batch(ReaderState)
       IN /\ SetReaderState(r.st)
          /\ pc' \in IF r.st.status = "ok" THEN {"loop"} ELSE Exit(r.st.status)
          /\ last_call' = <<CallRecord("read_batch", <<>>, <<r.num_read>>)>>
    /\ UNCHANGED <<time, input, output, served, empties, steps, first_run>>
    /\ UNCHANGED <<tagVars, channels, channelsMap>>

Call_read_with_timeout ==
    /\ pc = "loop"
    /\ \E max_time \in Limits :
          LET st == read_with_timeout(ReaderState, max_time)
          IN /\ SetReaderState(st)
             /\ pc' \in IF st.status = "ok" THEN {"loop"} ELSE Exit(st.status)
             /\ last_call' = <<CallRecord("read_with_timeout", <<max_time>>, <<>>)>>
    /\ UNCHANGED <<time, input, output, served, empties, steps, first_run>>
    /\ UNCHANGED <<tagVars, channels, channelsMap>>

ReadNext == Call_read_batch_with_timeout \/ Call_read_batch \/ Call_read_with_timeout

ReadSpec == ReadInit /\ [][ReadNext]_vars

----------------------------------------------------------------------------
(* Two runs of wfq.cpp compared: the program is run on an input, and when  *)
(* it has exited it is run again, from its initial state, on the same      *)
(* input with the explicit weights of one connection raised.               *)

\* Bursts at T = 0 whose first line carries the weight 1, followed or not
\* by one line at T = 1 that sets a weight.
PairPackets == 6
PairLengths == {1, 2, 3}
PairInputs ==
    {<<h>> \o m \o t :
        h \in {Line(0, "A a B b", l, 7, 1) : l \in PairLengths},
        m \in InputsUpTo(PairPackets - 2, LinesOver({0}, Connections, PairLengths, {})),
        t \in {<<>>} \cup {<<Line(1, c, 1, 7, 3)>> : c \in Connections}}

\* The input with every explicit weight of connection c raised by d.
RaiseWeight(inp, c, d) ==
    [i \in 1..Len(inp) |->
        IF inp[i].connection = c /\ inp[i].num_read = 7
        THEN [inp[i] EXCEPT !.weight = @ + d] ELSE inp[i]]

\* The explicit weights the lines of connection c carry.
ExplicitWeights(inp, c) ==
    {inp[i].weight : i \in {j \in 1..Len(inp) :
                              inp[j].connection = c /\ inp[j].num_read = 7}}

PairInit == InitWith(PairInputs)

\* The process has exited (main returned); it is started again on the input
\* with the weights of one connection raised, every object of the program
\* being constructed anew.
RunAgain ==
    /\ pc = "done"
    /\ first_run = <<>>
    /\ \E c \in Connections, d \in 1..2 :
          /\ ExplicitWeights(input, c) # {}
          /\ \A w \in ExplicitWeights(input, c) : w + d \in Weights
          /\ input' = RaiseWeight(input, c, d)
          /\ first_run' = <<[input |-> input, output |-> output, channel |-> c]>>
    /\ stdin' = input'
    /\ next_packet' = <<>>
    /\ channelsIndexMap' = EmptyMap
    /\ active_channels' = <<>>
    /\ channels' = <<>>
    /\ time' = 0
    /\ pc' = "loop"
    /\ output' = <<>>
    /\ served' = [c \in Connections |-> 0]
    /\ empties' = 0
    /\ steps' = 0
    /\ UNCHANGED tagVars
    /\ UNCHANGED <<last_call, channelsMap>>

PairNext == Next \/ RunAgain

PairSpec == PairInit /\ [][PairNext]_vars

----------------------------------------------------------------------------
(* wfq.cpp (lines 1-227): the first revision.  channelsIndexMap maps a     *)
(* connection to its index in the vector channels; an entry of the heap    *)
(* names a channel by its index.  Entries are not kept one per channel:    *)
(* main drops or re-keys an entry it finds out of date.  A packet is       *)
(* written as in the later revision, weight being <<>> where               *)
(* has_explicit_weight is false.                                           *)

\* channels[idx], the vector being indexed from 0.
ChannelAt(chs, idx) == chs[idx + 1]

\* ActiveChannelEntry::operator< of lines 68-72.
First_EntryLess(a, b) ==
    IF a.priority_snapshot # b.priority_snapshot
    THEN a.priority_snapshot > b.priority_snapshot
    ELSE a.index > b.index

First_TopPos(heap) ==
    CHOOSE i \in 1..Len(heap) : \A j \in 1..Len(heap) : ~First_EntryLess(heap[i], heap[j])

\* static_cast<double>(Q.front().length) / weight of the channel at idx.
First_Priority(chs, idx) ==
    Div(Q_front(ChannelAt(chs, idx).Q).length, ChannelAt(chs, idx).weight)

First_Push(chs, heap, idx) ==
    Append(heap, [index |-> idx, priority_snapshot |-> First_Priority(chs, idx)])

\* Lines 137-140: after the weight is updated, a channel with queued packets
\* gets an entry with the new priority of its head packet.
PushOnNewWeight(chs, heap, idx) ==
    IF ChannelAt(chs, idx).Q # <<>> THEN First_Push(chs, heap, idx) ELSE heap

\* Lines 120-148: the look-ahead packet p goes to its channel.
First_Enqueue(st, p) ==
    LET known == p.connection \in DOMAIN st.channelsIndexMap
        idx == IF known THEN st.channelsIndexMap[p.connection] ELSE Len(st.channels)
        map1 == IF known THEN st.channelsIndexMap
                ELSE [c \in DOMAIN st.channelsIndexMap \cup {p.connection} |->
                        IF c = p.connection THEN idx ELSE st.channelsIndexMap[c]]
        chs1 == IF known
                THEN IF p.weight # <<>>
                     THEN [st.channels EXCEPT ![idx + 1].weight = p.weight[1]]
                     ELSE st.channels
                ELSE Append(st.channels,
                            [index |-> idx, connection |-> p.connection,
                             weight |-> IF p.weight # <<>> THEN p.weight[1] ELSE 1,
                             Q |-> <<>>])
        heap1 == IF known /\ p.weight # <<>>
                 THEN PushOnNewWeight(chs1, st.active_channels, idx)
                 ELSE st.active_channels
        chs2 == [chs1 EXCEPT ![idx + 1].Q = Append(@, p)]
        heap2 == IF Len(ChannelAt(chs2, idx).Q) = 1 THEN First_Push(chs2, heap1, idx)
                 ELSE heap1
    IN [st EXCEPT !.channelsIndexMap = map1, !.channels = chs2,
                  !.active_channels = heap2, !.next_packet = <<>>]

\* read_batch_with_timeout of lines 108-152.
RECURSIVE First_read_batch_with_timeout(_, _, _)
First_read_batch_with_timeout(st, max_time, num_read) ==
    IF st.next_packet = <<>> /\ st.stdin = <<>>
    THEN [st |-> st, num_read |-> num_read]
    ELSE IF st.next_packet = <<>> /\ ~WellFormed(Head(st.stdin))
    THEN [st |-> [st EXCEPT !.status = ParseFailure(Head(st.stdin)), !.stdin = Tail(@)],
          num_read |-> num_read]
    ELSE LET s1 == IF st.next_packet = <<>>
                   THEN [st EXCEPT !.next_packet = <<PacketInfo_parse(Head(st.stdin))>>,
                                   !.stdin = Tail(@)]
                   ELSE st
             p == s1.next_packet[1]
         IN IF p.time > max_time
            THEN [st |-> s1, num_read |-> num_read]
            ELSE First_read_batch_with_timeout(First_Enqueue(s1, p),
                                               Min(max_time, p.time), num_read + 1)

First_read_batch(st) == First_read_batch_with_timeout(st, UINT64_MAX, 0)

RECURSIVE First_read_with_timeout(_, _)
First_read_with_timeout(st, max_time) ==
    LET r == First_read_batch_with_timeout(st, max_time, 0)
    IN IF r.num_read = 0 \/ r.st.status # "ok" THEN r.st
       ELSE First_read_with_timeout(r.st, max_time)

FirstReaderState ==
    [stdin |-> stdin, next_packet |-> next_packet,
     channelsIndexMap |-> channelsIndexMap, channels |-> channels,
     active_channels |-> active_channels, status |-> "ok"]

SetFirstReaderState(st) ==
    /\ stdin' = st.stdin
    /\ next_packet' = st.next_packet
    /\ channelsIndexMap' = st.channelsIndexMap
    /\ channels' = st.channels
    /\ active_channels' = st.active_channels

\* The loop of lines 183-189: every channel with queued packets, from index
\* i on, gets an entry.
RECURSIVE PushNonEmpty(_, _, _)
PushNonEmpty(chs, heap, i) ==
    IF i >= Len(chs) THEN heap
    ELSE PushNonEmpty(chs,
                      IF ChannelAt(chs, i).Q # <<>> THEN First_Push(chs, heap, i) ELSE heap,
                      i + 1)

\* Where main stands: at the test of the outer loop or of the inner loop
\* with the heap empty (the inner loop falls through to the outer), with
\* the heap non-empty, or before read_with_timeout.
FirstAtIdle == pc \in {"loop", "select"} /\ active_channels = <<>>
FirstAtSelect == pc \in {"loop", "select"} /\ active_channels # <<>>
FirstAtAbsorb == pc = "absorb"

\* The top entry, its channel and the priority its head packet has now.
FirstTop == active_channels[First_TopPos(active_channels)]
FirstTopChannel == ChannelAt(channels, FirstTop.index)

\* Lines 178-192: nothing is ready; read a batch, halt, or push the channels
\* with packets and fast-forward.
FirstIdle ==
    /\ FirstAtIdle
    /\ LET r == First_read_batch(FirstReaderState)
           heap == PushNonEmpty(r.st.channels, r.st.active_channels, 0)
       IN /\ stdin' = r.st.stdin
          /\ next_packet' = r.st.next_packet
          /\ channelsIndexMap' = r.st.channelsIndexMap
          /\ channels' = r.st.channels
          /\ IF r.st.status # "ok"
             THEN /\ pc' \in Exit(r.st.status)
                  /\ time' = time /\ active_channels' = r.st.active_channels
             ELSE IF r.num_read = 0
             THEN /\ pc' = "done"
                  /\ time' = time /\ active_channels' = r.st.active_channels
             ELSE /\ active_channels' = heap
                  /\ LET top == heap[First_TopPos(heap)]
                     IN IF heap = <<>> \/ ChannelAt(r.st.channels, top.index).Q = <<>>
                        THEN pc' = "undefined" /\ time' = time
                        ELSE /\ pc' = "select"
                             /\ time' = Q_front(ChannelAt(r.st.channels, top.index).Q).time
    /\ empties' = empties + 1
    /\ served' = [c \in Connections |-> 0]
    /\ steps' = steps + 1
    /\ UNCHANGED <<input, output, first_run>>
    /\ UNCHANGED tagVars
    /\ UNCHANGED <<last_call, channelsMap>>

\* Lines 198-201: the top entry's channel has no packet; the entry is dropped.
FirstDiscard ==
    /\ FirstAtSelect
    /\ FirstTopChannel.Q = <<>>
    /\ active_channels' = RemoveAt(active_channels, First_TopPos(active_channels))
    /\ pc' = "select"
    /\ steps' = steps + 1
    /\ UNCHANGED <<stdin, next_packet, channelsIndexMap, channels, time,
                   input, output, served, empties, first_run>>
    /\ UNCHANGED tagVars
    /\ UNCHANGED <<last_call, channelsMap>>

\* Lines 202-208: the priority of the channel's head packet is not the
\* entry's snapshot; the entry is replaced by one with the priority of now.
FirstRekey ==
    /\ FirstAtSelect
    /\ FirstTopChannel.Q # <<>>
    /\ First_Priority(channels, FirstTop.index) # FirstTop.priority_snapshot
    /\ active_channels' =
          First_Push(channels, RemoveAt(active_channels, First_TopPos(active_channels)),
                     FirstTop.index)
    /\ pc' = "select"
    /\ steps' = steps + 1
    /\ UNCHANGED <<stdin, next_packet, channelsIndexMap, channels, time,
                   input, output, served, empties, first_run>>
    /\ UNCHANGED tagVars
    /\ UNCHANGED <<last_call, channelsMap>>

\* Lines 210-220: the top entry is popped, the head packet of its channel
\* emitted, and the channel pushed again if it has more.
FirstServe ==
    /\ FirstAtSelect
    /\ FirstTopChannel.Q # <<>>
    /\ First_Priority(channels, FirstTop.index) = FirstTop.priority_snapshot
    /\ LET top == FirstTop
           p == Q_front(FirstTopChannel.Q)
           chs1 == [channels EXCEPT ![top.index + 1].Q = Q_pop(@)]
           heap1 == RemoveAt(active_channels, First_TopPos(active_channels))
       IN /\ output' = Append(output,
                [tau |-> time, packet |-> p, key |-> top.priority_snapshot,
                 index |-> top.index, empties |-> empties])
          /\ time' = time + p.length
          /\ channels' = chs1
          /\ active_channels' = IF ChannelAt(chs1, top.index).Q # <<>>
                                THEN First_Push(chs1, heap1, top.index) ELSE heap1
          /\ served' = [served EXCEPT ![p.connection] = @ + p.length]
          /\ empties' = IF heap1 = <<>> THEN empties + 1 ELSE empties
    /\ pc' = "absorb"
    /\ steps' = steps + 1
    /\ UNCHANGED <<stdin, next_packet, channelsIndexMap, input, first_run>>
    /\ UNCHANGED tagVars
    /\ UNCHANGED <<last_call, channelsMap>>

\* Lines 222-223: read what arrived during the transmission; break.
FirstAbsorb ==
    /\ FirstAtAbsorb
    /\ LET st == First_read_with_timeout(FirstReaderState, time)
       IN /\ SetFirstReaderState(st)
          /\ pc' \in IF st.status = "ok" THEN {"loop"} ELSE Exit(st.status)
    /\ steps' = steps + 1
    /\ UNCHANGED <<time, input, output, served, empties, first_run>>
    /\ UNCHANGED tagVars
    /\ UNCHANGED <<last_call, channelsMap>>

FirstNext == FirstIdle \/ FirstDiscard \/ FirstRekey \/ FirstServe \/ FirstAbsorb

FirstSpec == Init /\ [][FirstNext]_vars

----------------------------------------------------------------------------
(* new_wfq.cpp: the revision without a heap.  channels is a std::list of   *)
(* the channels with packets queued; main erases a channel when its FIFO   *)
(* drains and the reader creates it anew, with the index that              *)
(* channelsIndexMap keeps for its connection.  A ChannelInfo* of            *)
(* channelsMap is modelled by the connection of the list node it points    *)
(* to; a pointer to a node that is no longer in the list is dangling.      *)

\* ChannelInfo of new_wfq.cpp (lines 45-55), as created at lines 106-122.
New_ChannelInfo(index, weight, connection, p) ==
    [index |-> index, weight |-> weight, connection |-> connection, Q |-> <<p>>]

\* The position in the list of the node a pointer points to; 0 if dangling.
NodePos(chs, ptr) ==
    IF \E i \in 1..Len(chs) : chs[i].connection = ptr
    THEN CHOOSE i \in 1..Len(chs) : chs[i].connection = ptr
    ELSE 0

\* Lines 103-135: the look-ahead packet p goes to its channel, which is
\* created if channelsMap has none for its connection.
New_Enqueue(st, p) ==
    IF p.connection \notin DOMAIN st.channelsMap
    THEN LET known == p.connection \in DOMAIN st.channelsIndexMap
             index == IF known THEN st.channelsIndexMap[p.connection]
                      ELSE Cardinality(DOMAIN st.channelsIndexMap)
             weight == IF p.weight # <<>> THEN p.weight[1] ELSE 1
         IN [st EXCEPT
               !.channelsIndexMap =
                   IF known THEN @
                   ELSE [c \in DOMAIN @ \cup {p.connection} |->
                           IF c = p.connection THEN index ELSE @[c]],
               !.channels = Append(@, New_ChannelInfo(index, weight, p.connection, p)),
               !.channelsMap = [c \in DOMAIN @ \cup {p.connection} |->
                                  IF c = p.connection THEN p.connection ELSE @[c]],
               !.next_packet = <<>>]
    ELSE LET i == NodePos(st.channels, st.channelsMap[p.connection])
         IN IF i = 0 THEN [st EXCEPT !.status = "undefined"]
            ELSE [st EXCEPT
                    !.channels[i].Q = Append(@, p),
                    !.channels[i].weight = IF p.weight # <<>> THEN p.weight[1] ELSE @,
                    !.next_packet = <<>>]

\* read_batch_with_timeout of new_wfq.cpp: the loop of lines 95-136.
RECURSIVE New_read_batch_with_timeout(_, _, _)
New_read_batch_with_timeout(st, max_time, num_read) ==
    IF st.status # "ok" THEN [st |-> st, num_read |-> num_read]
    ELSE IF st.next_packet = <<>> /\ st.stdin = <<>>
    THEN [st |-> st, num_read |-> num_read]
    ELSE IF st.next_packet = <<>> /\ ~WellFormed(Head(st.stdin))
    THEN [st |-> [st EXCEPT !.status = ParseFailure(Head(st.stdin)), !.stdin = Tail(@)],
          num_read |-> num_read]
    ELSE LET s1 == IF st.next_packet = <<>>
                   THEN [st EXCEPT !.next_packet = <<PacketInfo_parse(Head(st.stdin))>>,
                                   !.stdin = Tail(@)]
                   ELSE st
             p == s1.next_packet[1]
         IN IF p.time > max_time
            THEN [st |-> s1, num_read |-> num_read]
            ELSE New_read_batch_with_timeout(New_Enqueue(s1, p), Min(max_time, p.time),
                                             num_read + 1)

New_read_batch(st) == New_read_batch_with_timeout(st, UINT64_MAX, 0)

RECURSIVE New_read_with_timeout(_, _)
New_read_with_timeout(st, max_time) ==
    LET r == New_read_batch_with_timeout(st, max_time, 0)
    IN IF r.num_read = 0 \/ r.st.status # "ok" THEN r.st
       ELSE New_read_with_timeout(r.st, max_time)

NewReaderState ==
    [stdin |-> stdin, next_packet |-> next_packet,
     channelsIndexMap |-> channelsIndexMap, channelsMap |-> channelsMap,
     channels |-> channels, status |-> "ok"]

SetNewReaderState(st) ==
    /\ stdin' = st.stdin
    /\ next_packet' = st.next_packet
    /\ channelsIndexMap' = st.channelsIndexMap
    /\ channelsMap' = st.channelsMap
    /\ channels' = st.channels

\* Lines 176-184: the comparator of min_element, a before b.
New_Less(a, b) ==
    IF Div(Q_front(a.Q).length, a.weight) # Div(Q_front(b.Q).length, b.weight)
    THEN Div(Q_front(a.Q).length, a.weight) < Div(Q_front(b.Q).length, b.weight)
    ELSE a.index < b.index

\* std::min_element: the first node that no node comes before.
MinElement(chs) ==
    CHOOSE i \in 1..Len(chs) :
        /\ \A j \in 1..Len(chs) : ~New_Less(chs[j], chs[i])
        /\ \A k \in 1..(i - 1) : \E j \in 1..Len(chs) : New_Less(chs[j], chs[k])

NewAtIdle == pc = "loop" /\ channels = <<>>
NewAtServe == pc = "select" \/ (pc = "loop" /\ channels # <<>>)
NewAtAbsorb == pc = "absorb"

\* Lines 166-169: no channel has packets; read the next batch, halt or
\* fast-forward to the first packet of the first channel.
NewIdle ==
    /\ NewAtIdle
    /\ LET r == New_read_batch(NewReaderState)
       IN /\ SetNewReaderState(r.st)
          /\ IF r.st.status # "ok"
             THEN pc' \in Exit(r.st.status) /\ time' = time
             ELSE IF r.num_read = 0
             THEN pc' = "done" /\ time' = time
             ELSE IF r.st.channels = <<>>
             THEN pc' = "undefined" /\ time' = time
             ELSE pc' = "select" /\ time' = Q_front(r.st.channels[1].Q).time
    /\ empties' = empties + 1
    /\ served' = [c \in Connections |-> 0]
    /\ steps' = steps + 1
    /\ UNCHANGED <<input, output, first_run, last_call, active_channels>>
    /\ UNCHANGED tagVars

\* Lines 171-197: the channels without packets are removed (remove_if moves
\* the nodes' contents, which leaves the pointers of channelsMap dangling);
\* the head packet of the least channel is emitted and the channel erased
\* if it has no more.
NewServe ==
    /\ NewAtServe
    /\ IF \E i \in 1..Len(channels) : channels[i].Q = <<>>
       THEN /\ pc' = "undefined"
            /\ UNCHANGED <<channels, channelsMap, time, output, served>>
       ELSE LET i == MinElement(channels)
                earliest_channel == channels[i]
                p == Q_front(earliest_channel.Q)
            IN /\ output' = Append(output,
                      [tau |-> time, packet |-> p,
                       key |-> Div(p.length, earliest_channel.weight),
                       index |-> earliest_channel.index, empties |-> empties])
               /\ time' = time + p.length
               /\ IF Q_pop(earliest_channel.Q) = <<>>
                  THEN /\ channelsMap' =
                             [c \in DOMAIN channelsMap \ {earliest_channel.connection}
                                |-> channelsMap[c]]
                       /\ channels' = RemoveAt(channels, i)
                  ELSE /\ channelsMap' = channelsMap
                       /\ channels' = [channels EXCEPT ![i].Q = Q_pop(@)]
               /\ served' = [served EXCEPT ![p.connection] = @ + p.length]
               /\ pc' = "absorb"
    /\ steps' = steps + 1
    /\ UNCHANGED <<stdin, next_packet, channelsIndexMap, input, empties,
                   first_run, last_call, active_channels>>
    /\ UNCHANGED tagVars

\* Line 199: read what arrived while the packet was transmitted.
NewAbsorb ==
    /\ NewAtAbsorb
    /\ LET st == New_read_with_timeout(NewReaderState, time)
       IN /\ SetNewReaderState(st)
          /\ pc' \in IF st.status = "ok" THEN {"loop"} ELSE Exit(st.status)
    /\ steps' = steps + 1
    /\ UNCHANGED <<time, input, output, served, empties, first_run, last_call,
                   active_channels>>
    /\ UNCHANGED tagVars

NewNext == NewIdle \/ NewServe \/ NewAbsorb

NewSpec == Init /\ [][NewNext]_vars

----------------------------------------------------------------------------
(* part_003: the revision with a virtual time V and finish tags.           *)

\* PacketReader::parse_packet on the reader rd: the packet takes the next
\* index and the connection's current weight, or sets it.
Reader_parse_packet(rd, line) ==
    LET known == line.connection \in DOMAIN rd.connection_weights
        w == IF line.num_read = 7 THEN line.weight
             ELSE IF known THEN rd.connection_weights[line.connection] ELSE 1
        cw == IF line.num_read = 7
              THEN [c \in DOMAIN rd.connection_weights \cup {line.connection} |->
                      IF c = line.connection THEN line.weight
                      ELSE rd.connection_weights[c]]
              ELSE rd.connection_weights
    IN [rd EXCEPT !.num_packets = @ + 1,
                  !.connection_weights = cw,
                  !.stdin = Tail(@),
                  !.next_packet =
                      <<[index |-> rd.num_packets, time |-> line.time,
                         connection |-> line.connection, length |-> line.length,
                         weight |-> w,
                         should_print_with_weight |-> line.num_read = 7]>>]

\* PacketReader::read_batch_with_timeout: the packets read are added to out.
RECURSIVE Reader_read_batch_with_timeout(_, _, _)
Reader_read_batch_with_timeout(rd, max_time, out) ==
    IF rd.next_packet = <<>> /\ rd.stdin = <<>>
    THEN [rd |-> rd, out |-> out]
    ELSE IF rd.next_packet = <<>> /\ ~WellFormed(Head(rd.stdin))
    THEN [rd |-> [rd EXCEPT !.status = "aborted", !.stdin = Tail(@)], out |-> out]
    ELSE LET r1 == IF rd.next_packet = <<>>
                   THEN Reader_parse_packet(rd, Head(rd.stdin)) ELSE rd
             p == r1.next_packet[1]
         IN IF p.time > max_time
            THEN [rd |-> r1, out |-> out]
            ELSE Reader_read_batch_with_timeout([r1 EXCEPT !.next_packet = <<>>],
                                                Min(max_time, p.time), Append(out, p))

Reader_read_batch(rd, out) == Reader_read_batch_with_timeout(rd, UINT64_MAX, out)

\* PacketReader::read_with_timeout: batches until one adds nothing.
RECURSIVE Reader_read_with_timeout(_, _, _)
Reader_read_with_timeout(rd, max_time, out) ==
    LET r == Reader_read_batch_with_timeout(rd, max_time, out)
    IN IF Len(r.out) = Len(out) \/ r.rd.status # "ok" THEN r
       ELSE Reader_read_with_timeout(r.rd, max_time, r.out)

PacketReader ==
    [stdin |-> stdin, next_packet |-> next_packet,
     connection_weights |-> connection_weights, num_packets |-> num_packets,
     status |-> "ok"]

SetPacketReader(rd) ==
    /\ stdin' = rd.stdin
    /\ next_packet' = rd.next_packet
    /\ connection_weights' = rd.connection_weights
    /\ num_packets' = rd.num_packets

\* Mutant: the start tag ignores the virtual time.
StartTagOfFlow(v, last) == last

\* double S = std::max(V, last_finish[connection]).
StartTag(v, last) == Max(v, last)

\* The loops of lines 163-169 and 179-185: each packet is tagged and pushed.
\* tq holds the virtual time, the last finish tags and the queue.
RECURSIVE TagAndPush(_, _)
TagAndPush(tq, packets) ==
    IF packets = <<>> THEN tq
    ELSE LET p == Head(packets)
             S == StartTag(tq.V, tq.last_finish[p.connection])
             F == S + Div(p.length, p.weight)
         IN TagAndPush([tq EXCEPT !.last_finish[p.connection] = F,
                                  !.Q = Append(@, [p EXCEPT !.finish_tag = F])],
                       Tail(packets))

\* Packets leave the reader without a finish tag (the field is not set).
Untagged(packets) ==
    [i \in 1..Len(packets) |->
        [index |-> packets[i].index, time |-> packets[i].time,
         connection |-> packets[i].connection, length |-> packets[i].length,
         weight |-> packets[i].weight,
         should_print_with_weight |-> packets[i].should_print_with_weight,
         finish_tag |-> 0]]

\* PacketComparator: the positions Q.top() may be at, the packets of least
\* finish tag; among equal tags the order is the heap's own.
TopPositions(q) == {i \in 1..Len(q) : \A j \in 1..Len(q) : q[i].finish_tag <= q[j].finish_tag}

NoFinish == [c \in Connections |-> 0]

TagAtIdle == pc = "loop" /\ Q = <<>>
TagAtServe == pc = "select" \/ (pc = "loop" /\ Q # <<>>)
TagAtAbsorb == pc = "absorb"

\* Lines 156-170: the queue is empty; read a batch, halt, or restart the
\* virtual time and tag the batch.
TagIdle ==
    /\ TagAtIdle
    /\ LET r == Reader_read_batch(PacketReader, <<>>)
       IN /\ SetPacketReader(r.rd)
          /\ IF r.rd.status # "ok"
             THEN pc' = r.rd.status /\ UNCHANGED <<time, V, last_finish, Q>>
             ELSE IF r.out = <<>>
             THEN pc' = "done" /\ UNCHANGED <<time, V, last_finish, Q>>
             ELSE LET tq == TagAndPush([V |-> 0, last_finish |-> NoFinish, Q |-> Q],
                                       Untagged(r.out))
                  IN /\ pc' = "select"
                     /\ time' = r.out[1].time
                     /\ V' = tq.V
                     /\ last_finish' = tq.last_finish
                     /\ Q' = tq.Q
    /\ empties' = empties + 1
    /\ served' = [c \in Connections |-> 0]
    /\ steps' = steps + 1
    /\ UNCHANGED <<input, output, first_run>>
    /\ UNCHANGED wfqVars
    /\ UNCHANGED <<last_call, channelsMap>>

\* Lines 172-175: the packet of least finish tag is emitted.
TagServe ==
    /\ TagAtServe
    /\ \E i \in TopPositions(Q) :
          LET p == Q[i]
          IN /\ Q' = RemoveAt(Q, i)
             /\ output' = Append(output,
                   [tau |-> time, packet |-> p, key |-> p.finish_tag,
                    index |-> p.index, empties |-> empties])
             /\ time' = time + p.length
             /\ V' = p.finish_tag
             /\ served' = [served EXCEPT ![p.connection] = @ + p.length]
             /\ empties' = IF Len(Q) = 1 THEN empties + 1 ELSE empties
    /\ pc' = "absorb"
    /\ steps' = steps + 1
    /\ UNCHANGED <<stdin, next_packet, connection_weights, num_packets,
                   last_finish, input, first_run>>
    /\ UNCHANGED wfqVars
    /\ UNCHANGED <<last_call, channelsMap>>

\* Lines 177-185: what arrived during the transmission is tagged and pushed.
TagAbsorb ==
    /\ TagAtAbsorb
    /\ LET r == Reader_read_with_timeout(PacketReader, time, <<>>)
           tq == TagAndPush([V |-> V, last_finish |-> last_finish, Q |-> Q],
                            Untagged(r.out))
       IN /\ SetPacketReader(r.rd)
          /\ pc' = IF r.rd.status = "ok" THEN "loop" ELSE r.rd.status
          /\ last_finish' = tq.last_finish
          /\ Q' = tq.Q
    /\ steps' = steps + 1
    /\ UNCHANGED <<time, V, input, output, served, empties, first_run>>
    /\ UNCHANGED wfqVars
    /\ UNCHANGED <<last_call, channelsMap>>

TagNext == TagIdle \/ TagServe \/ TagAbsorb

TagSpec == Init /\ [][TagNext]_vars

----------------------------------------------------------------------------
(* The two revisions compared: wfq.cpp, which tags a packet when it comes  *)
(* to the head of its channel, is run on an input, and when it has exited  *)
(* part_003, which tags a packet when it arrives, is run on the same input.*)

\* Bursts at T = 0 of two flows, with and without a weight set on the way.
TagTimePackets == 4
TagTimeLines ==
    {Line(0, "A a B b", 1, 7, 3), Line(0, "A a B b", 1, 7, 1),
     Line(0, "A a B b", 1, 6, 0), Line(0, "A a B b", 3, 6, 0),
     Line(0, "C c D d", 1, 6, 0), Line(0, "C c D d", 2, 6, 0)}
TagTimeInputs == InputsUpTo(TagTimePackets, TagTimeLines)

BothInit == InitWith(TagTimeInputs)

\* wfq.cpp has exited; part_003 is started on the same input.
RunTagged ==
    /\ pc = "done"
    /\ first_run = <<>>
    /\ first_run' = <<[input |-> input, output |-> output, channel |-> ""]>>
    /\ stdin' = input
    /\ next_packet' = <<>>
    /\ time' = 0
    /\ pc' = "loop"
    /\ output' = <<>>
    /\ served' = [c \in Connections |-> 0]
    /\ empties' = 0
    /\ steps' = 0
    /\ V' = 0
    /\ last_finish' = NoFinish
    /\ connection_weights' = EmptyMap
    /\ num_packets' = 0
    /\ Q' = <<>>
    /\ UNCHANGED <<input, channelsIndexMap, active_channels, channels>>
    /\ UNCHANGED <<last_call, channelsMap>>

BothNext ==
    \/ first_run = <<>> /\ Next
    \/ RunTagged
    \/ first_run # <<>> /\ TagNext

BothSpec == BothInit /\ [][BothNext]_vars

----------------------------------------------------------------------------
(* The revisions of wfq.cpp one after the other: the later revision (lines *)
(* 228-420) is run on an input, and when it has exited the first revision  *)
(* (lines 1-227) is run on the same input.                                 *)

RevPackets == 3
\* Arrivals at T = 0 and at T = 2, when a packet of either length sent at 0
\* has been transmitted.
RevInputs == InputsUpTo(RevPackets, LinesOver({0, 2}, Connections, Lengths, {2}))

RevInit == InitWith(RevInputs)

\* The later revision has exited; the first revision is started on the
\* same input, its globals as constructed.
RunFirst ==
    /\ pc = "done"
    /\ first_run = <<>>
    /\ first_run' = <<[input |-> input, output |-> output, channel |-> ""]>>
    /\ stdin' = input
    /\ next_packet' = <<>>
    /\ channelsIndexMap' = EmptyMap
    /\ channels' = <<>>
    /\ active_channels' = <<>>
    /\ time' = 0
    /\ pc' = "loop"
    /\ output' = <<>>
    /\ served' = [c \in Connections |-> 0]
    /\ empties' = 0
    /\ steps' = 0
    /\ UNCHANGED <<input, last_call, channelsMap>>
    /\ UNCHANGED tagVars

RevNext ==
    \/ first_run = <<>> /\ Next
    \/ RunFirst
    \/ first_run # <<>> /\ FirstNext

RevSpec == RevInit /\ [][RevNext]_vars

----------------------------------------------------------------------------
(* Histories read off the variables.                                       *)

\* The packets emitted so far, and the arrivals of the input, as PacketInfo's.
Emitted == [i \in 1..Len(output) |-> output[i].packet]
Arrivals == [i \in 1..Len(input) |-> PacketInfo_parse(input[i])]
ArrivalsConsumed == SubSeq(Arrivals, 1, NumConsumed)

RECURSIVE OfConnection(_, _)
OfConnection(seq, c) ==
    IF seq = <<>> THEN <<>>
    ELSE IF Head(seq).connection = c THEN <<Head(seq)>> \o OfConnection(Tail(seq), c)
    ELSE OfConnection(Tail(seq), c)

IsPrefix(s, t) == Len(s) <= Len(t) /\ SubSeq(t, 1, Len(s)) = s

Count(seq, x) == Cardinality({i \in 1..Len(seq) : seq[i] = x})

Halted == pc = "done"

QueuedOn(c) == IF c \in DOMAIN channelsIndexMap THEN channelsIndexMap[c].Q ELSE <<>>

----------------------------------------------------------------------------
(* The claims, wfq.cpp (Spec, FairSpec).                                   *)

\* C1: per-flow FIFO.  For every connection, the packets emitted on it are,
\* in order, the first of the arrivals consumed on it, the rest being queued
\* on its channel in arrival order; once the program has halted they are all
\* of the arrivals of that connection.
PerFlowFIFO ==
    \A c \in Connections :
        /\ OfConnection(Emitted, c) \o QueuedOn(c) = OfConnection(ArrivalsConsumed, c)
        /\ Halted => OfConnection(Emitted, c) = OfConnection(Arrivals, c)

\* C1 witness: a finished run that reordered the input across flows and
\* emitted two different packets of one flow.
PerFlowFIFOWitness ==
    /\ Halted
    /\ Emitted # Arrivals
    /\ \E c \in Connections :
          LET f == OfConnection(Emitted, c)
          IN Len(f) >= 2 /\ f[1] # f[2]

\* C5: the tau printed on the emitted lines never decreases.
TauNonDecreasing ==
    \A i, j \in 1..Len(output) : i < j => output[i].tau <= output[j].tau

\* C5 witness: tau jumped over an idle gap between two emissions.
TauNonDecreasingWitness ==
    \E i \in 1..(Len(output) - 1) :
        output[i + 1].tau > output[i].tau + output[i].packet.length

\* C6: no packet is emitted before its arrival time.
NoEarlyEmission ==
    \A i \in 1..Len(output) : output[i].tau >= output[i].packet.time

\* C6 witness: one packet emitted at its arrival time after an idle gap, and
\* one that waited.
NoEarlyEmissionWitness ==
    /\ \E i \in 1..Len(output) :
          output[i].packet.time > 0 /\ output[i].tau = output[i].packet.time
    /\ \E i \in 1..Len(output) : output[i].tau > output[i].packet.time

\* The entries of the ready heap that stand for connection c.
EntriesOf(c) == {i \in 1..Len(active_channels) : active_channels[i].channel = c}

Drained ==
    /\ stdin = <<>>
    /\ next_packet = <<>>
    /\ active_channels = <<>>
    /\ \A c \in DOMAIN channelsIndexMap : channelsIndexMap[c].Q = <<>>
    /\ Len(Emitted) = Len(Arrivals)
    /\ \A i \in 1..Len(Arrivals) : Count(Emitted, Arrivals[i]) = Count(Arrivals, Arrivals[i])

\* C4: on every (finite, well-formed) input the scheduler loop halts, and it
\* halts only with the input at EOF, the look-ahead slot, the ready heap and
\* every FIFO empty, every arrival emitted.  Halting: until it has halted
\* main can take a step, and it takes three steps for each arrival at most
\* (fast-forward, service, absorption) and one to halt.
HaltsDrained ==
    /\ Halted \/ AtIdle \/ AtServe \/ AtAbsorb
    /\ steps <= 3 * Len(input) + 1
    /\ Halted => Drained

\* C4 witness: a run of three arrivals or more that has halted.
HaltsDrainedWitness == Halted /\ Len(output) >= 3 /\ empties >= 3

\* C2: of two packets emitted with the ready heap never empty in between,
\* the earlier was selected under the smaller (key, channel index).
EmissionInKeyOrder ==
    \A i, j \in 1..Len(output) :
        (i < j /\ output[i].empties = output[j].empties) =>
            \/ output[i].key < output[j].key
            \/ output[i].key = output[j].key /\ output[i].index < output[j].index

----------------------------------------------------------------------------
(* The claims, wfq.cpp on bursts (BurstSpec).                              *)

\* The largest packet length seen so far.
LMax ==
    LET lens == {ArrivalsConsumed[i].length : i \in 1..Len(ArrivalsConsumed)}
    IN IF lens = {} THEN 0 ELSE CHOOSE l \in lens : \A m \in lens : m <= l

Abs(x) == IF x < 0 THEN -x ELSE x

\* C3: the WFQ fairness bound.  At every point of a busy period, for any two
\* channels with weights w, w' and lengths served B, B' in the busy period,
\* |B/w - B'/w'| <= L_max (w + w') / (w w'); multiplied out by w w'.
FairnessBound ==
    \A c, d \in DOMAIN channelsIndexMap :
        LET w == channelsIndexMap[c].weight
            x == channelsIndexMap[d].weight
        IN Abs(served[c] * x - served[d] * w) <= LMax * (w + x)

\* The number of lines of the input on connection c.
LinesOf(c) == Len(OfConnection(Arrivals, c))

\* An input of two flows of equal weight, identical lengths and one arrival
\* time: no line carries a weight, or the first line of each flow carries
\* the same one and no other line does.
EqualShareInput ==
    /\ \A c \in Connections : LinesOf(c) >= 1
    /\ \A i, j \in 1..Len(input) :
          input[i].time = input[j].time /\ input[i].length = input[j].length
    /\ \/ \A i \in 1..Len(input) : input[i].num_read = 6
       \/ /\ input[1].num_read = 7 /\ input[2].num_read = 7
          /\ input[1].weight = input[2].weight
          /\ input[1].connection # input[2].connection
          /\ \A i \in 3..Len(input) : input[i].num_read = 6

\* C10: on such an input the emitted schedule alternates between the two
\* flows, the first-seen flow first, until one flow has run out.
EqualShareAlternates ==
    (Halted /\ EqualShareInput) =>
        LET shorter == Min(LinesOf(input[1].connection),
                           Len(input) - LinesOf(input[1].connection))
        IN \A k \in 1..(2 * shorter) :
              (output[k].packet.connection = input[1].connection) <=> (k % 2 = 1)

\* Scenario S3: the schedule expected, as (tau, line of the input emitted).
S3Output == << <<0, 1>>, <<100, 3>>, <<200, 5>>, <<300, 2>>, <<400, 4>>, <<500, 6>> >>

----------------------------------------------------------------------------
(* The claims, part_003 (TagSpec).                                         *)

Transmits == Len(output') = Len(output) + 1

----------------------------------------------------------------------------
(* The claims about a single flow and about idle periods (Spec).           *)

\* Every line of the input is on one connection.
SingleFlow == \A i, j \in 1..Len(input) : input[i].connection = input[j].connection

\* The sum of the lengths of the first k emitted packets.
RECURSIVE EmittedLength(_)
EmittedLength(k) == IF k = 0 THEN 0 ELSE EmittedLength(k - 1) + output[k].packet.length

\* C11 as claimed: on a single-flow input the packets are emitted in input
\* order and the tau of the k-th is the T of the first arrival plus the sum
\* of the lengths of the k-1 packets emitted before it.
SingleFlowCumulative ==
    SingleFlow =>
        \A k \in 1..Len(output) :
            /\ output[k].packet = Arrivals[k]
            /\ output[k].tau = Arrivals[1].time + EmittedLength(k - 1)

\* C11 as amended: on a single-flow input the packets are emitted in input
\* order, the first at its arrival time T, and each later one when the
\* transmission before it ends or at its own arrival time T, whichever is
\* later.
SingleFlowSchedule ==
    SingleFlow =>
        \A k \in 1..Len(output) :
            /\ output[k].packet = Arrivals[k]
            /\ output[k].tau =
                  IF k = 1 THEN Arrivals[1].time
                  ELSE Max(Arrivals[k].time,
                           output[k - 1].tau + output[k - 1].packet.length)

\* C11 witness: a finished single-flow run of three packets, one emitted
\* after an idle gap and one back to back.
SingleFlowScheduleWitness ==
    /\ Halted
    /\ SingleFlow
    /\ Len(output) = 3
    /\ \E k \in 2..3 : output[k].tau = output[k - 1].tau + output[k - 1].packet.length
    /\ \E k \in 2..3 : output[k].tau > output[k - 1].tau + output[k - 1].packet.length

----------------------------------------------------------------------------
(* The claims about the order of the ready heap (Spec).                    *)

\* The positions of the ready heap holding the least key.
MinKeyPositions ==
    {i \in 1..Len(active_channels) :
        \A j \in 1..Len(active_channels) :
            active_channels[i].priority_snapshot <= active_channels[j].priority_snapshot}

\* The positions priority_queue::top() may name: those below no other entry.
TopCandidates ==
    {i \in 1..Len(active_channels) :
        \A j \in 1..Len(active_channels) :
            ~EntryLess(channelsIndexMap, active_channels[i], active_channels[j])}

----------------------------------------------------------------------------
(* The claims about two runs compared (PairSpec).                          *)

\* The total length, on connection c, of the lines of out printed with a
\* tau of t at most (the transmissions begun by t), and of the transmissions
\* ended by t.
RECURSIVE BegunBy(_, _, _)
BegunBy(out, c, t) ==
    IF out = <<>> THEN 0
    ELSE BegunBy(Tail(out), c, t)
         + (IF Head(out).packet.connection = c /\ Head(out).tau <= t
            THEN Head(out).packet.length ELSE 0)

RECURSIVE EndedBy(_, _, _)
EndedBy(out, c, t) ==
    IF out = <<>> THEN 0
    ELSE EndedBy(Tail(out), c, t)
         + (IF Head(out).packet.connection = c
               /\ Head(out).tau + Head(out).packet.length <= t
            THEN Head(out).packet.length ELSE 0)

\* The largest packet length of an input.
LMaxOf(inp) ==
    CHOOSE l \in {inp[i].length : i \in 1..Len(inp)} :
        \A i \in 1..Len(inp) : inp[i].length <= l

\* The taus printed in a run.
TausOf(out) == {out[i].tau : i \in 1..Len(out)}

\* C13: weight monotonicity.  Of two finished runs on inputs that differ in
\* one channel's weight only, larger in the second, at every tau the length
\* served to that channel in the second run is smaller than in the first by
\* L_max at most; the length served by tau being that of the transmissions
\* begun by tau, or that of the transmissions ended by tau.
WeightMonotone ==
    (Halted /\ first_run # <<>>) =>
        LET r == first_run[1]
            taus == TausOf(output) \cup TausOf(r.output)
        IN \/ \A t \in taus :
                 BegunBy(output, r.channel, t)
                    >= BegunBy(r.output, r.channel, t) - LMaxOf(input)
           \/ \A t \in taus :
                 EndedBy(output, r.channel, t)
                    >= EndedBy(r.output, r.channel, t) - LMaxOf(input)

----------------------------------------------------------------------------
(* The claims about lines of text (TextSpec).                              *)

\* A line of the expected shape: 6 or 7 tokens, T and L numerals, and W,
\* when there is one, a numeral.
ExpectedShape(tokens) ==
    /\ Len(tokens) \in {6, 7}
    /\ tokens[1].num
    /\ tokens[6].num
    /\ Len(tokens) = 7 => tokens[7].num

\* The lines getline has taken from standard input so far.
NumRead == Len(input) - Len(stdin)

\* The process has ended on a line it did not accept.
Aborted == pc \in Exit("uninitialized")

\* C14: malformed input is fatal.  A line that has been read and is not of
\* the expected shape (fewer than 6 tokens, more than 7, or a T, L or W that
\* is no number) has put the process in the aborted state: no line read is
\* accepted unless it has the expected shape, and no packet of such a line
\* is emitted.
MalformedIsFatal ==
    /\ \A i \in 1..NumRead :
          ~ExpectedShape(input[i].tokens) => Aborted
    /\ \A k \in 1..Len(output) :
          \E i \in 1..NumRead :
             /\ ExpectedShape(input[i].tokens)
             /\ output[k].packet = PacketInfo_parse(input[i])

----------------------------------------------------------------------------
(* The claims about idle periods (GapSpec).                                *)

\* The taus scenario S4 expects.
S4Taus == <<S4Input[1].time, S4Input[2].time>>

\* C15: idle fast-forward.  A step that finds the ready heap empty and reads
\* a further batch sets the clock to the T of that batch, the earliest
\* arrival not consumed before; the packet emitted next is printed with tau
\* equal to its own T; and the run on S4 emits its two packets at tau = 0
\* and tau = 100.
IdleFastForward ==
    [][/\ (AtIdle /\ pc' = "select") =>
             /\ time' = Arrivals[NumConsumed + 1].time
             /\ \A i \in (NumConsumed + 1)..Len(input) : time' <= Arrivals[i].time
       /\ (pc = "select" /\ Transmits) =>
             output'[Len(output')].tau = output'[Len(output')].packet.time
       /\ (pc' = "done" /\ input = S4Input) =>
             /\ Len(output') = Len(S4Input)
             /\ \A k \in 1..Len(S4Input) :
                   /\ output'[k].tau = S4Taus[k]
                   /\ output'[k].packet = PacketInfo_parse(S4Input[k])]_vars

\* C15 witness: on S4 the first packet has been emitted, the heap was found
\* empty, and the clock stands at the T of the second batch, beyond the end
\* of the first transmission; the second packet is about to be emitted.
IdleFastForwardWitness ==
    /\ input = S4Input
    /\ pc = "select"
    /\ Len(output) = 1
    /\ time > output[1].tau + output[1].packet.length
    /\ time = S4Input[2].time

----------------------------------------------------------------------------
(* The claims about the keys of the ready heap (Spec).                     *)

\* C16: the finish-tag recurrence, at a refill.  When a packet of channel C
\* has been selected under the key F* and C's next packet, of length L, is
\* tagged and pushed, C.F_last is F*, so the new key max(V, C.F_last) + L / C.w
\* is F* + L / C.w at least; it is not the bare L / C.w.
FinishTagRecurrence ==
    [][(Transmits
        /\ channelsIndexMap'[output'[Len(output')].packet.connection].Q # <<>>) =>
          LET sel == output'[Len(output')]
              pushed == active_channels'[Len(active_channels')]
              channel == channelsIndexMap'[sel.packet.connection]
          IN /\ pushed.channel = sel.packet.connection
             /\ pushed.priority_snapshot
                   >= sel.key + Div(Q_front(channel.Q).length, channel.weight)]_vars

----------------------------------------------------------------------------
(* The claims about the first revision of wfq.cpp (FirstSpec).             *)

\* How many entries of the heap h name the channel of index idx under key k.
EntryCount(h, idx, k) ==
    Cardinality({i \in 1..Len(h) : h[i].index = idx /\ h[i].priority_snapshot = k})

KeysOn(h) == {h[i].priority_snapshot : i \in 1..Len(h)}

\* C17: tags are immutable under weight updates.  A step that consumes
\* arrivals (one with an explicit weight among them or not) leaves the
\* entries of every channel that had its head packet tagged and on the heap
\* as they were: the same keys, each as often as before, so no key changed
\* and no second entry added.
TagsImmutable ==
    [][NumConsumed' > NumConsumed =>
          \A idx \in 0..(Len(channels) - 1) :
              (/\ ChannelAt(channels, idx).Q # <<>>
               /\ \E i \in 1..Len(active_channels) : active_channels[i].index = idx) =>
                  \A k \in KeysOn(active_channels) \cup KeysOn(active_channels') :
                      EntryCount(active_channels', idx, k)
                         = EntryCount(active_channels, idx, k)]_vars

----------------------------------------------------------------------------
(* The claims about the two revisions compared (BothSpec).                 *)

\* The lines a run printed: tau and the packet's T, connection and length.
Printed(out) ==
    [i \in 1..Len(out) |->
        <<out[i].tau, out[i].packet.time, out[i].packet.connection,
          out[i].packet.length>>]

\* No two packets of the run were emitted under the same key: no selection
\* of a burst was left to the order of the heap among equal keys.
NoEqualKeys == \A i, j \in 1..Len(output) : i # j => output[i].key # output[j].key

\* C18: tagging time does not matter.  On every well-formed input the
\* revision that tags a packet when it arrives, behind other packets of its
\* channel, prints the schedule that the revision tagging a packet when it
\* reaches the head of its channel prints; also when a line sets the
\* channel's weight between the two moments.  (Stated of the runs in which
\* the former met no equal finish tags.)
TaggingTimeIrrelevant ==
    (pc = "done" /\ first_run # <<>> /\ NoEqualKeys) =>
        Printed(output) = Printed(first_run[1].output)

----------------------------------------------------------------------------
(* The claims about channel weights (Spec).                                *)

\* The position in the input of the n-th line of connection c.
ArrivalPos(c, n) ==
    CHOOSE i \in 1..Len(input) :
        /\ input[i].connection = c
        /\ Cardinality({j \in 1..i : input[j].connection = c}) = n

\* The position in the input of the k-th emitted packet: flows are emitted
\* in arrival order.
EmittedPos(k) ==
    ArrivalPos(output[k].packet.connection,
               Cardinality({j \in 1..k :
                              output[j].packet.connection = output[k].packet.connection}))

\* The weights set on connection c by the lines from position i on.
WeightsSetFrom(c, i) ==
    {input[j].weight : j \in {m \in i..Len(input) :
                                input[m].connection = c /\ input[m].num_read = 7}}

\* C19: an explicit weight applies to its own packet.  The key under which
\* a packet that carried a weight W is selected was computed with W, or
\* with a weight set by a later line of its connection; never with the
\* weight that W replaced.
OwnWeightApplies ==
    \A k \in 1..Len(output) :
        output[k].packet.weight # <<>> =>
            /\ output[k].packet = PacketInfo_parse(input[EmittedPos(k)])
            /\ \E w \in WeightsSetFrom(output[k].packet.connection, EmittedPos(k)) :
                  output[k].key = Div(output[k].packet.length, w)

\* C19 witness: a packet with a weight that came to the empty FIFO of a new
\* channel, and one that was tagged later at the head, having arrived in
\* the same batch behind a packet without weight; for both the key with the
\* weight replaced, 1.0, would have been another.
OwnWeightAppliesWitness ==
    /\ \E k \in 1..Len(output) :
          /\ output[k].packet.weight # <<>>
          /\ EmittedPos(k) = ArrivalPos(output[k].packet.connection, 1)
          /\ output[k].key # Div(output[k].packet.length, 1)
    /\ \E k \in 2..Len(output) :
          /\ output[k].packet.weight # <<>>
          /\ output[k - 1].packet.connection = output[k].packet.connection
          /\ output[k - 1].packet.weight = <<>>
          /\ output[k - 1].packet.time = output[k].packet.time
          /\ output[k - 1].key = Div(output[k - 1].packet.length, 1)
          /\ output[k].key # Div(output[k].packet.length, 1)

\* The lines of connection c consumed so far that carry a weight.
WeightLines(c) ==
    {i \in 1..NumConsumed : input[i].connection = c /\ input[i].num_read = 7}

\* The W of the explicit-weight arrival consumed last on connection c, or 1.0.
LastWeight(c) ==
    IF WeightLines(c) = {} THEN 1
    ELSE input[CHOOSE i \in WeightLines(c) : \A j \in WeightLines(c) : j <= i].weight

----------------------------------------------------------------------------
(* The claims about the channels and the reader (Spec).                    *)

\* The position of the first consumed line of connection c.
FirstAt(c) ==
    CHOOSE i \in 1..NumConsumed :
        input[i].connection = c /\ \A j \in 1..(i - 1) : input[j].connection # c

\* The number of distinct connections on the lines before position i.
DistinctBefore(i) == Cardinality({input[j].connection : j \in 1..(i - 1)})

\* C21: channel indices.  The channels are those of the connections consumed
\* so far; the channel of the n-th distinct connection consumed (n = 0, 1,
\* ...) has index n, at every point of the run, so that the index never
\* changes, no two channels share one, and every packet was emitted under the
\* index its channel has now, whether the FIFO drained in between or not.
ChannelIndices ==
    /\ DOMAIN channelsIndexMap = {input[i].connection : i \in 1..NumConsumed}
    /\ \A c \in DOMAIN channelsIndexMap :
          channelsIndexMap[c].index = DistinctBefore(FirstAt(c))
    /\ \A c, d \in DOMAIN channelsIndexMap :
          c # d => channelsIndexMap[c].index # channelsIndexMap[d].index
    /\ \A k \in 1..Len(output) :
          output[k].index = channelsIndexMap[output[k].packet.connection].index

\* C21 witness: the channel that was created second has index 1 after its
\* FIFO drained and was refilled: a packet of it was emitted, and the packet
\* now queued arrived no earlier than that transmission ended.
ChannelIndicesWitness ==
    \E c \in DOMAIN channelsIndexMap :
        /\ channelsIndexMap[c].index = 1
        /\ Len(channelsIndexMap[c].Q) = 1
        /\ \E k \in 1..Len(output) :
              /\ output[k].packet.connection = c
              /\ output[k].index = 1
              /\ output[k].tau + output[k].packet.length <= channelsIndexMap[c].Q[1].time

\* The packets standing in the FIFOs, as (connection, position) pairs.
InFIFOs ==
    UNION {{<<c, i>> : i \in 1..Len(channelsIndexMap[c].Q)} : c \in DOMAIN channelsIndexMap}

\* The arrivals of the input with T <= t (a prefix: the input is ordered by T).
ArrivedBy(t) == SubSeq(Arrivals, 1, Cardinality({i \in 1..Len(input) : input[i].time <= t}))

\* C22: arrivals during service are absorbed before the next selection.
\* When main comes back to the top of its loop after an emission and the
\* read_with_timeout(time) that follows it, time being advanced by the
\* emitted length, the arrivals appended to the FIFOs so far (emitted since
\* or still queued) are exactly the arrivals with T <= time, each on the
\* channel of its connection in arrival order; and what was read from stdin
\* and not enqueued is at most the one look-ahead arrival, the next of the
\* input, with T > time.
AbsorbedBeforeSelection ==
    (pc = "loop" /\ output # <<>>) =>
        /\ ArrivalsConsumed = ArrivedBy(time)
        /\ \A c \in Connections :
              OfConnection(Emitted, c) \o QueuedOn(c) = OfConnection(ArrivedBy(time), c)
        /\ Len(input) - Len(stdin)
              = Len(output) + Cardinality(InFIFOs) + Len(next_packet)
        /\ Len(next_packet) <= 1
        /\ next_packet # <<>> =>
              /\ next_packet[1].time > time
              /\ next_packet[1] = Arrivals[NumConsumed + 1]

\* C22 witness: back at the top of the loop, a packet that arrived while
\* the last packet was transmitted stands in a FIFO, and an arrival with a
\* later T is held in the look-ahead slot.
AbsorbedBeforeSelectionWitness ==
    /\ pc = "loop"
    /\ output # <<>>
    /\ next_packet # <<>>
    /\ \E c \in DOMAIN channelsIndexMap :
          \E i \in 1..Len(channelsIndexMap[c].Q) :
              /\ channelsIndexMap[c].Q[i].time > output[Len(output)].tau
              /\ channelsIndexMap[c].Q[i].time <= time

----------------------------------------------------------------------------
(* The claims about the read functions (ReadSpec).                         *)

\* The last call, if it was a call of fn.
Called(fn) == last_call # <<>> /\ last_call[1].fn = fn

\* The arrivals not consumed when the last call was made (the look-ahead
\* packet, if there was one, and the lines not read), as positions of input.
Unconsumed == (last_call[1].consumed + 1)..Len(input)

\* How many of them the last call consumed.
ConsumedByCall == NumConsumed - last_call[1].consumed

\* The arrivals at the front of the unconsumed input with T <= t: the input
\* is ordered by T, so they are all the unconsumed arrivals with T <= t.
FrontUpTo(t) == {i \in Unconsumed : input[i].time <= t}

\* The arrivals at the front of the unconsumed input that have the arrival
\* time of the first of them.
FrontBatch == {i \in Unconsumed : input[i].time = input[last_call[1].consumed + 1].time}

\* After a call: every arrival consumed so far stands on the channel of its
\* connection, in input order (the calls emit nothing).
ConsumedInOrder ==
    \A c \in Connections : QueuedOn(c) = OfConnection(ArrivalsConsumed, c)

\* After a call: it stopped at EOF, or at an arrival with T > t, which is
\* now in the look-ahead slot.
StoppedAt(t) ==
    \/ stdin = <<>> /\ next_packet = <<>>
    \/ /\ next_packet # <<>>
       /\ next_packet[1] = Arrivals[NumConsumed + 1]
       /\ next_packet[1].time > t

\* C23, as claimed: read_batch_with_timeout(max_time) consumes, in input
\* order, every arrival at the front of the unconsumed input with
\* T <= max_time, stops at the first with T > max_time or at EOF, and returns
\* the number of arrivals it consumed.
ReadUntilLimit ==
    Called("read_batch_with_timeout") =>
        /\ ConsumedByCall = Cardinality(FrontUpTo(last_call[1].args[1]))
        /\ ConsumedInOrder
        /\ StoppedAt(last_call[1].args[1])
        /\ last_call[1].result = <<ConsumedByCall>>

\* C23, amended: read_batch_with_timeout(max_time) consumes, in input order,
\* the arrivals at the front of the unconsumed input that share the arrival
\* time of the first of them, if that time is <= max_time, and none
\* otherwise; it stops at the first arrival with a later T or at EOF, and
\* returns the number of arrivals it consumed.
ReadOneBatchUpToLimit ==
    Called("read_batch_with_timeout") =>
        /\ ConsumedByCall =
              Cardinality(FrontBatch \cap FrontUpTo(last_call[1].args[1]))
        /\ ConsumedInOrder
        /\ \/ ConsumedByCall = 0 /\ StoppedAt(last_call[1].args[1])
           \/ ConsumedByCall > 0 /\ StoppedAt(input[NumConsumed].time)
        /\ last_call[1].result = <<ConsumedByCall>>

\* C23 witness: a call that consumed two arrivals of one T and left an
\* arrival with a later T, not beyond the limit, in the look-ahead slot.
ReadOneBatchUpToLimitWitness ==
    /\ Called("read_batch_with_timeout")
    /\ last_call[1].result = <<2>>
    /\ next_packet # <<>>
    /\ next_packet[1].time <= last_call[1].args[1]
    /\ next_packet[1].time > input[NumConsumed].time

\* C24: read_batch() consumes exactly the arrivals that share the earliest
\* unconsumed arrival time: all of them (they are consecutive at the front
\* of the unconsumed input), in input order, and no arrival with a larger T,
\* which stays in the look-ahead slot; it returns their number, and zero
\* only when it was called with the input exhausted and the look-ahead slot
\* empty.
ReadBatchExact ==
    Called("read_batch") =>
        /\ ConsumedByCall = Cardinality(FrontBatch)
        /\ ConsumedInOrder
        /\ ConsumedByCall > 0 => StoppedAt(input[NumConsumed].time)
        /\ last_call[1].result = <<ConsumedByCall>>
        /\ last_call[1].result = <<0>> <=>
              (last_call[1].stdin = <<>> /\ last_call[1].next_packet = <<>>)

\* C24 witness: read_batch, called with an arrival in the look-ahead slot,
\* consumed it and the arrival of the same T behind it, and left an arrival
\* with a larger T in the slot.
ReadBatchExactWitness ==
    /\ Called("read_batch")
    /\ last_call[1].next_packet # <<>>
    /\ last_call[1].result = <<2>>
    /\ next_packet # <<>>
    /\ next_packet[1].time > input[NumConsumed].time

\* The number of lines read from stdin so far.
LinesRead == Len(input) - Len(stdin)

\* What holds of the look-ahead slot in every state: it holds one arrival at
\* most, the one read last; what was read before it is on the channels or
\* emitted, the arrival in the slot is not; and after a call with a time
\* limit, an arrival that the call read and whose T exceeds the limit is
\* the one in the slot.
SlotHoldsTheLastRead ==
    /\ Len(next_packet) <= 1
    /\ next_packet # <<>> => next_packet[1] = PacketInfo_parse(input[LinesRead])
    /\ Cardinality(InFIFOs) + Len(output) = LinesRead - Len(next_packet)
    /\ \A c \in Connections :
          OfConnection(Emitted, c) \o QueuedOn(c)
             = OfConnection(SubSeq(Arrivals, 1, LinesRead - Len(next_packet)), c)
    /\ (last_call # <<>> /\ last_call[1].args # <<>>) =>
          \A i \in (Len(input) - Len(last_call[1].stdin) + 1)..LinesRead :
              input[i].time > last_call[1].args[1] =>
                  /\ i = LinesRead
                  /\ next_packet = <<PacketInfo_parse(input[i])>>

\* What holds of every step taken with the slot occupied: either no line is
\* read and the slot is left as it is, or the arrival of the slot is among
\* the arrivals consumed in the step (the first of them, the arrivals
\* consumed being in every state the first of the input, in input order).
SlotConsumedFirst ==
    next_packet # <<>> =>
        \/ stdin' = stdin /\ next_packet' = next_packet
        \/ NumConsumed' > NumConsumed

\* C25: look-ahead push-back.  An arrival that was read and whose T exceeds
\* the caller's limit is kept in the look-ahead slot, neither enqueued nor
\* dropped, and is the first arrival the next call considers; the slot
\* never holds more than one arrival, and no line is read while it is
\* occupied.
LookAheadPushBack == [](SlotHoldsTheLastRead) /\ [][SlotConsumedFirst]_vars

\* C25 witness: a call found an arrival in the slot, with lines still
\* unread behind it, and left both as they were, the arrival being beyond
\* the call's limit.
LookAheadPushBackWitness ==
    /\ Called("read_batch_with_timeout")
    /\ last_call[1].next_packet # <<>>
    /\ next_packet = last_call[1].next_packet
    /\ next_packet[1].time > last_call[1].args[1]
    /\ stdin = last_call[1].stdin
    /\ stdin # <<>>
    /\ last_call[1].result = <<0>>

\* new_wfq.cpp keeps its structures together: the list holds one node for
\* each connection of channelsMap, none with an empty FIFO when main selects,
\* and no pointer dangles.
NewChannelsConsistent ==
    /\ pc # "undefined"
    /\ DOMAIN channelsMap = {channels[i].connection : i \in 1..Len(channels)}
    /\ \A i, j \in 1..Len(channels) :
          channels[i].connection = channels[j].connection => i = j
    /\ \A c \in DOMAIN channelsMap : channelsMap[c] = c
    /\ pc # "absorb" => \A i \in 1..Len(channels) : channels[i].Q # <<>>

\* The indices of new_wfq.cpp: the n-th distinct connection consumed has
\* index n in channelsIndexMap for good, a channel has the index of its
\* connection whenever it is created, and every packet was emitted under it.
NewChannelIndices ==
    /\ DOMAIN channelsIndexMap = {input[i].connection : i \in 1..NumConsumed}
    /\ \A c \in DOMAIN channelsIndexMap :
          channelsIndexMap[c] = DistinctBefore(FirstAt(c))
    /\ \A i \in 1..Len(channels) :
          channels[i].index = channelsIndexMap[channels[i].connection]
    /\ \A k \in 1..Len(output) :
          output[k].index = channelsIndexMap[output[k].packet.connection]

\* A channel of new_wfq.cpp that was erased when its FIFO drained exists
\* again, with the index 1 it had.
NewChannelIndicesWitness ==
    \E i \in 1..Len(channels) :
        /\ channels[i].index = 1
        /\ Len(channels[i].Q) = 1
        /\ \E k \in 1..Len(output) :
              /\ output[k].packet.connection = channels[i].connection
              /\ output[k].tau + output[k].packet.length <= channels[i].Q[1].time

----------------------------------------------------------------------------
(* The claims about keys, lengths and times (Spec, ZeroSpec).              *)

\* The keys under which the packets of connection c were placed on the
\* ready heap, in FIFO order: those of the packets emitted, and that of the
\* head packet if the channel is on the heap.
KeysOf(c) ==
    LET emitted == {k \in 1..Len(output) : output[k].packet.connection = c}
        nth(n) == CHOOSE k \in emitted : Cardinality({j \in emitted : j <= k}) = n
    IN [n \in 1..Cardinality(emitted) |-> output[nth(n)].key]
       \o [e \in 1..Cardinality(EntriesOf(c)) |->
              active_channels[CHOOSE i \in EntriesOf(c) : TRUE].priority_snapshot]

\* C26: per-channel tag monotonicity.  For each channel the keys under
\* which its successive packets are placed on the ready heap do not
\* decrease, in FIFO order.
KeysNonDecreasingPerChannel ==
    \A c \in Connections :
        \A m, n \in 1..Len(KeysOf(c)) : m < n => KeysOf(c)[m] <= KeysOf(c)[n]

\* The finish tag last given to a packet of the channel of the k-th emitted
\* packet before that packet was tagged (F_last), 0 if there was none.
FLastAt(k) ==
    LET before == {j \in 1..(k - 1) :
                     output[j].packet.connection = output[k].packet.connection}
    IN IF before = {} THEN 0
       ELSE output[CHOOSE j \in before : \A i \in before : i <= j].key

\* A packet of length 0 is given a finish tag equal to its start tag; the
\* start tag being max(V, F_last), the tag is then no smaller than the tag
\* of the packet before it on its channel.
ZeroLengthTag ==
    \A k \in 1..Len(output) :
        output[k].packet.length = 0 => output[k].key >= FLastAt(k)

\* A packet of length 0 is emitted, and once: never more often than it
\* arrived, and as often when the program has halted.
ZeroLengthEmittedOnce ==
    \A i \in 1..Len(input) :
        input[i].length = 0 =>
            /\ Count(Emitted, Arrivals[i]) <= Count(Arrivals, Arrivals[i])
            /\ Halted => Count(Emitted, Arrivals[i]) = Count(Arrivals, Arrivals[i])

\* The emission of a packet of length 0 leaves tau as it is: the next line
\* carries the same tau, or, after an idle fast-forward, the later arrival
\* time of its packet.
ZeroLengthKeepsTau ==
    /\ \A k \in 1..(Len(output) - 1) :
          output[k].packet.length = 0 =>
              \/ output[k + 1].tau = output[k].tau
              \/ /\ output[k + 1].tau = output[k + 1].packet.time
                 /\ output[k + 1].packet.time > output[k].tau
    /\ (output # <<>> /\ output[Len(output)].packet.length = 0 /\ pc = "absorb")
          => time = output[Len(output)].tau

\* C27: zero-length packets.  A packet of length 0 gets a finish tag equal
\* to its start tag, is still emitted exactly once, and its emission leaves
\* tau unchanged.
ZeroLengthPackets == ZeroLengthTag /\ ZeroLengthEmittedOnce /\ ZeroLengthKeepsTau

\* The arrivals not emitted when the k-th emitted packet has been emitted,
\* as positions of the input.
NotEmittedAfter(k) == (1..Len(input)) \ {EmittedPos(j) : j \in 1..k}

\* The time at which the transmission of the k-th emitted packet ends.
EndOf(k) == output[k].tau + output[k].packet.length

\* C28: work conservation and non-overlap.  For consecutive emitted packets
\* k and k+1: tau_{k+1} >= tau_k + L_k; tau_{k+1} = tau_k + L_k whenever
\* some arrival not emitted yet has T <= tau_k + L_k; and when every arrival
\* with T <= tau_k + L_k has been emitted, tau_{k+1} is the arrival time of
\* the next arrival.
WorkConserving ==
    \A k \in 1..(Len(output) - 1) :
        LET waiting == {i \in NotEmittedAfter(k) : input[i].time <= EndOf(k)}
        IN /\ output[k + 1].tau >= EndOf(k)
           /\ waiting # {} => output[k + 1].tau = EndOf(k)
           /\ waiting = {} =>
                 /\ output[k + 1].tau > EndOf(k)
                 /\ \A i \in NotEmittedAfter(k) : output[k + 1].tau <= input[i].time
                 /\ output[k + 1].tau = output[k + 1].packet.time

\* C28 witness: a run in which a packet was emitted at the end of the
\* transmission before it, later than it arrived, and another after the
\* link had been idle.
WorkConservingWitness ==
    /\ \E k \in 1..(Len(output) - 1) :
          /\ output[k + 1].tau = EndOf(k)
          /\ output[k + 1].packet.time < EndOf(k)
    /\ \E k \in 1..(Len(output) - 1) : output[k + 1].tau > EndOf(k)

----------------------------------------------------------------------------
(* The claims about both revisions of wfq.cpp (RevSpec).                   *)

\* Whether the revision running is the first one (lines 1-227).
FirstRunning == first_run # <<>>

\* The FIFO of the channel of connection c, in the revision running.
FIFOOf(c) ==
    IF c \notin DOMAIN channelsIndexMap THEN <<>>
    ELSE IF FirstRunning THEN ChannelAt(channels, channelsIndexMap[c]).Q
    ELSE channelsIndexMap[c].Q

\* The index of the channel of connection c, in the revision running.
IndexOf(c) ==
    IF FirstRunning THEN channelsIndexMap[c] ELSE channelsIndexMap[c].index

RECURSIVE SumOver(_, _)
SumOver(f, S) ==
    IF S = {} THEN 0
    ELSE LET x == CHOOSE y \in S : TRUE IN f[x] + SumOver(f, S \ {x})

\* C29: packet conservation.  In every state each arrival consumed is in
\* one place: in the FIFO of the channel of its own connection or emitted,
\* once (a line that came n times is there n times in all); the FIFOs and
\* the output hold nothing else; every packet was emitted from the channel
\* of its connection.  So no packet is emitted twice, emitted under another
\* connection or lost, whatever entries the ready heap holds.
PacketConservation ==
    /\ \A c \in Connections :
          \A i \in 1..Len(FIFOOf(c)) :
              /\ FIFOOf(c)[i].connection = c
              /\ Count(ArrivalsConsumed, FIFOOf(c)[i]) >= 1
    /\ \A k \in 1..Len(output) :
          /\ Count(ArrivalsConsumed, output[k].packet) >= 1
          /\ output[k].index = IndexOf(output[k].packet.connection)
    /\ \A i \in 1..NumConsumed :
          Count(Emitted, Arrivals[i]) + Count(FIFOOf(Arrivals[i].connection), Arrivals[i])
             = Count(ArrivalsConsumed, Arrivals[i])
    /\ Len(output) + SumOver([c \in Connections |-> Len(FIFOOf(c))], Connections)
          = NumConsumed

\* C29 witness: the first revision, with packets emitted and one queued,
\* holds two entries for one channel on the ready heap and an entry for a
\* channel whose FIFO is empty.
PacketConservationWitness ==
    /\ FirstRunning
    /\ first_run[1].output # <<>>
    /\ output # <<>>
    /\ \E c \in Connections : FIFOOf(c) # <<>>
    /\ \E i, j \in 1..Len(active_channels) :
          i # j /\ active_channels[i].index = active_channels[j].index
    /\ \E i \in 1..Len(active_channels) :
          ChannelAt(channels, active_channels[i].index).Q = <<>>

\* C30: no access to an empty structure.  On well-formed input the
\* assertion of mark_channel_active never fails and main never reads top()
\* of an empty heap or front() of an empty FIFO: no run ends in a failed
\* assertion or in undefined behaviour, and wherever main is about to read
\* active_channels.top() outside a test of empty() (in the later revision,
\* after its idle branch) the heap is not empty and the FIFO of the top
\* channel, whose front() is read unchecked, is not empty.
NoEmptyAccess ==
    /\ pc \notin {"assert_failed", "undefined"}
    /\ (~FirstRunning /\ pc = "select") => active_channels # <<>>
    /\ (~FirstRunning /\ AtServe) =>
          FIFOOf(active_channels[TopPos(channelsIndexMap, active_channels)].channel) # <<>>

\* C30 witness: the later revision has refilled the heap with a channel
\* that had a packet left when its head was popped, and the first revision, having found the heap
\* empty after an emission, has read a batch, set time to the arrival time
\* of the top channel's head packet and is about to read top() again.
NoEmptyAccessWitness ==
    /\ FirstRunning
    /\ \E k \in 1..(Len(first_run[1].output) - 1) :
          /\ first_run[1].output[k].packet.connection
                = first_run[1].output[k + 1].packet.connection
          /\ first_run[1].output[k + 1].packet.time <= first_run[1].output[k].tau
    /\ pc = "select"
    /\ output # <<>>
    /\ EndOf(Len(output)) < time
    /\ active_channels # <<>>
    /\ FirstTopChannel.Q # <<>>
    /\ Q_front(FirstTopChannel.Q).time = time

====
